---- MODULE Spec2Model ----
(***************************************************************************)
(* Model of the LED pulse-sweep controller: led_ctrl_run.py (main) and     *)
(* led_ctrl_backend.py (init_instrument, configure_pulse_mode,             *)
(* set_pulse_parameters, fire_pulse, measure, turn_off, cleanup,           *)
(* run_sweep).                                                             *)
(*                                                                         *)
(* One state of the model is one position of the single Python thread      *)
(* (pc), the pending exception, the sweep parameters, the instrument's     *)
(* registers and the history of what the program did (commands issued,     *)
(* sleeps, lines printed).  Every inst.write / inst.query may raise: each   *)
(* command step takes ok \in BOOLEAN.  A rejected write leaves the          *)
(* instrument's registers as they were.  The operator's Ctrl+C is one      *)
(* cancellation signal per sweep: it may arrive at any point of the        *)
(* countdown and of the try body of run_sweep, and at main's prompt.       *)
(***************************************************************************)
EXTENDS Integers, Sequences, FiniteSets, TLC

\* ------------------------------------------------------------- bounds
MaxSteps == 2
MaxOnTime == 2
MaxOffTime == 1
MaxCountdown == 1
MaxSweeps == 2

\* ------------------------------------------------- program parameters
MAX_LIMIT_MA == 200
TERMINAL == 2

\* START_LED_CURR_MA, END_LED_CURR_MA and STEP_MA as the user may set them
\* (mA): below range, in range, exactly the limit, above the limit.
StartValues == {0 - 20, 20, 200, 220}
EndValues == {0 - 20, 20, 200, 220}
StepValues == {20, 180, 200}

\* list(range(start, stop, step)) for step > 0.
RECURSIVE PyRange(_, _, _)
PyRange(start, stop, step) ==
    IF start >= stop THEN << >>
    ELSE << start >> \o PyRange(start + step, stop, step)

\* sweep_currents of main, for the lists of at most MaxSteps pulses.
SweepCurrents ==
    {l \in {PyRange(s, e + 1, d) : s \in StartValues, e \in EndValues, d \in StepValues} :
        Len(l) <= MaxSteps}

VARIABLES
    pc,                \* position of the thread
    exc,               \* exception travelling out of main: "none" | "error" | "cleanup"
    currents_ma,       \* run_sweep parameter
    on_time,           \* run_sweep parameter
    off_time,          \* run_sweep parameter
    initial_countdown, \* run_sweep parameter
    idx,               \* 1-based loop index of run_sweep (0 before the loop)
    t,                 \* seconds left in the countdown / hold being waited
    inst,              \* instrument registers
    session,           \* "none" | "open" | "closed"
    cmds,              \* commands and sleeps since the current sweep began
    results,           \* measurement lines printed by the current sweep
    statuses,          \* "LED OFF (STATe?=..)" lines printed by the current sweep
    outcome,           \* how the current sweep stands
    intAt,             \* where the operator interrupt hit the current sweep
    sweepNo            \* number of run_sweep calls made by main

vars == << pc, exc, currents_ma, on_time, off_time, initial_countdown, idx, t,
           inst, session, cmds, results, statuses, outcome, intAt, sweepNo >>

plan == << currents_ma, on_time, off_time, initial_countdown >>

NoInt == [pc |-> "none", idx |-> 0, pos |-> 0, nres |-> 0, nstat |-> 0]

\* Positions of run_sweep
CountdownPcs == {"countdown"}
TryPcs == {"ampl", "ontime", "offtime", "count", "fire", "settle", "measI",
           "measV", "onhold", "off", "query", "offhold"}
HandlerPcs == {"h_off", "h_query"}
WaitPcs == {"settle", "onhold", "offhold"}

\* ------------------------------------------------------ the instrument
\* Effect of an accepted command on the instrument's registers.
InstApply(r, op, arg) ==
    CASE op = "rst"      -> [output |-> "OFF", mode |-> "CC", limit |-> 0,
                             terminal |-> 1, brightness |-> 0]
      [] op = "limit"    -> [r EXCEPT !.limit = arg]
      [] op = "terminal" -> [r EXCEPT !.terminal = arg]
      [] op = "mode"     -> [r EXCEPT !.mode = "PULS"]
      [] op = "ampl"     -> [r EXCEPT !.brightness = arg]
      [] op = "on"       -> [r EXCEPT !.output = "ON"]
      [] op = "off"      -> [r EXCEPT !.output = "OFF"]
      [] OTHER           -> r

Cmd(who, op, arg, ok) == [who |-> who, op |-> op, step |-> idx, arg |-> arg, ok |-> ok]

\* inst.write(...) / inst.query(...): the command is on the record whether
\* or not the instrument accepts it; only an accepted one takes effect.
Issue(who, op, arg, ok) ==
    /\ cmds' = Append(cmds, Cmd(who, op, arg, ok))
    /\ inst' = IF ok THEN InstApply(inst, op, arg) ELSE inst

\* time.sleep(1)
Sleep1 ==
    /\ cmds' = Append(cmds, Cmd("sweep", "sleep", 1, TRUE))
    /\ UNCHANGED inst

\* ------------------------------------------------------------ backend
\* Variant of TurnOffWrite: turn_off insists on an output that is ON, and
\* can only raise when the output is OFF already.
TurnOffWrite_RefusedWhenOff(who, ok) ==
    /\ inst.output = "ON" \/ ~ok
    /\ Issue(who, "off", 0, ok)

\* The body of turn_off(inst), whoever calls it (the step, the interrupt
\* handler, cleanup): inst.write('OUTPut1:STATe OFF'), whatever the output is.
TurnOffWrite(who, ok) == Issue(who, "off", 0, ok)

\* set_pulse_parameters: pct = (current_ma / max_limit_ma) * 100.
\* The model's currents are multiples of max_limit_ma / 100, so the integer
\* quotient is exact.
PulsePct(current_ma, max_limit_ma) == (current_ma * 100) \div max_limit_ma

\* The argument of SOURce1:CURRent:LIMIt:AMPLitude: max_limit_ma / 1000 amps,
\* held here in millionths of an amp so that it stays an integer.
LimitAmps(max_limit_ma) == max_limit_ma * 1000

\* Variant of RaiseFromSweep: the exception is swallowed inside run_sweep
\* (a blanket "except Exception: pass" around the loop) and run_sweep returns.
RaiseFromSweep_Swallowed ==
    /\ pc' = "prompt"
    /\ exc' = "none"
    /\ outcome' = "completed"

\* An exception other than KeyboardInterrupt raised inside run_sweep: the
\* try of run_sweep has no handler for it, main's try has none either, so
\* main's finally runs cleanup and the exception goes on out of main.
RaiseFromSweep ==
    /\ pc' = "cleanup_off"
    /\ exc' = "error"
    /\ outcome' = "failed"

\* Variant of LoopNext: the loop stops one element short.
LoopNext_OffByOne(i) ==
    IF i + 1 < Len(currents_ma)
    THEN /\ idx' = i + 1
         /\ pc' = "ampl"
         /\ t' = 0
         /\ outcome' = "running"
    ELSE /\ pc' = "prompt"
         /\ outcome' = "completed"
         /\ t' = 0
         /\ idx' = i

\* Variant of LoopNext: the loop body is entered before the list is tested,
\* so an empty list still gets a first pass.
LoopNext_EntersEmpty(i) ==
    IF i < Len(currents_ma) \/ i = 0
    THEN /\ idx' = i + 1
         /\ pc' = "ampl"
         /\ t' = 0
         /\ outcome' = "running"
    ELSE /\ pc' = "prompt"
         /\ outcome' = "completed"
         /\ t' = 0
         /\ idx' = i

\* The for loop of run_sweep, having done i elements, takes the next one,
\* or is exhausted and run_sweep returns to main's prompt.
LoopNext(i) ==
    IF i < Len(currents_ma)
    THEN /\ idx' = i + 1
         /\ pc' = "ampl"
         /\ t' = 0
         /\ outcome' = "running"
    ELSE /\ pc' = "prompt"
         /\ outcome' = "completed"
         /\ t' = 0
         /\ idx' = i

\* ---------------------------------------------------------------- main
Init ==
    /\ pc = "init_open"
    /\ exc = "none"
    /\ currents_ma \in SweepCurrents
    /\ on_time \in 1..MaxOnTime
    /\ off_time \in 0..MaxOffTime
    /\ initial_countdown \in 0..MaxCountdown
    /\ idx = 0
    /\ t = 0
    /\ inst \in [output : {"ON", "OFF"}, mode : {"CC"}, limit : {0},
                 terminal : {1}, brightness : {0}]
    /\ session = "none"
    /\ cmds = << >>
    /\ results = << >>
    /\ statuses = << >>
    /\ outcome = "none"
    /\ intAt = NoInt
    /\ sweepNo = 0

\* init_instrument: open, *RST, current limit, terminal.
init_instrument ==
    /\ pc \in {"init_open", "init_rst", "init_limit", "init_term"}
    /\ \E ok \in BOOLEAN :
        /\ CASE pc = "init_open" -> /\ session' = IF ok THEN "open" ELSE "none"
                                    /\ UNCHANGED << cmds, inst >>
             [] pc = "init_rst"   -> Issue("init", "rst", 0, ok) /\ UNCHANGED session
             [] pc = "init_limit" -> Issue("init", "limit", LimitAmps(MAX_LIMIT_MA), ok) /\ UNCHANGED session
             [] pc = "init_term"  -> Issue("init", "terminal", TERMINAL, ok) /\ UNCHANGED session
        /\ IF ok
           THEN /\ pc' = CASE pc = "init_open"  -> "init_rst"
                           [] pc = "init_rst"   -> "init_limit"
                           [] pc = "init_limit" -> "init_term"
                           [] pc = "init_term"  -> "cfg_mode"
                /\ UNCHANGED exc
           ELSE pc' = "end" /\ exc' = "error"
    /\ UNCHANGED << plan, idx, t, results, statuses, outcome, intAt, sweepNo >>

\* configure_pulse_mode: pulse mode, then the limit again.
configure_pulse_mode ==
    /\ pc \in {"cfg_mode", "cfg_limit"}
    /\ \E ok \in BOOLEAN :
        /\ IF pc = "cfg_mode"
           THEN Issue("init", "mode", 0, ok)
           ELSE Issue("init", "limit", LimitAmps(MAX_LIMIT_MA), ok)
        /\ IF ok
           THEN pc' = (IF pc = "cfg_mode" THEN "cfg_limit" ELSE "idn") /\ UNCHANGED exc
           ELSE pc' = "end" /\ exc' = "error"
    /\ UNCHANGED << plan, idx, t, session, results, statuses, outcome, intAt, sweepNo >>

\* inst.query("*IDN?") before the loop of main.
QueryIdn ==
    /\ pc = "idn"
    /\ \E ok \in BOOLEAN :
        /\ Issue("init", "idn?", 0, ok)
        /\ IF ok
           THEN pc' = "call_sweep" /\ UNCHANGED exc
           ELSE pc' = "end" /\ exc' = "error"
    /\ UNCHANGED << plan, idx, t, session, results, statuses, outcome, intAt, sweepNo >>

\* main's loop body: run_sweep(inst, INITIAL_COUNTDOWN, ON_TIME, OFF_TIME, ...)
\* is entered; with no countdown and no currents it returns at once.
CallSweep ==
    /\ pc = "call_sweep"
    /\ sweepNo' = sweepNo + 1
    /\ cmds' = << >>
    /\ results' = << >>
    /\ statuses' = << >>
    /\ intAt' = NoInt
    /\ IF initial_countdown > 0
       THEN /\ pc' = "countdown"
            /\ t' = initial_countdown
            /\ idx' = 0
            /\ outcome' = "running"
       ELSE LoopNext(0)
    /\ UNCHANGED << exc, plan, inst, session >>

\* ----------------------------------------------------------- run_sweep
\* Initial countdown: for t in range(initial_countdown, 0, -1): sleep(1).
\* It stands before the try of run_sweep.
Countdown ==
    /\ pc = "countdown"
    /\ Sleep1
    /\ IF t > 1
       THEN t' = t - 1 /\ UNCHANGED << pc, idx, outcome >>
       ELSE LoopNext(0)
    /\ UNCHANGED << exc, plan, session, results, statuses, intAt, sweepNo >>

\* Variant of set_pulse_parameters: the four writes are best-effort, a
\* rejected one is passed over and the next is made.
set_pulse_parameters_BestEffort ==
    /\ pc \in {"ampl", "ontime", "offtime", "count"}
    /\ \E ok \in BOOLEAN :
        /\ CASE pc = "ampl"    -> Issue("sweep", "ampl", PulsePct(currents_ma[idx], MAX_LIMIT_MA), ok)
             [] pc = "ontime"  -> Issue("sweep", "ontime", on_time, ok)
             [] pc = "offtime" -> Issue("sweep", "offtime", off_time, ok)
             [] pc = "count"   -> Issue("sweep", "count", 1, ok)
        /\ pc' = CASE pc = "ampl"    -> "ontime"
                   [] pc = "ontime"  -> "offtime"
                   [] pc = "offtime" -> "count"
                   [] pc = "count"   -> "fire"
        /\ UNCHANGED << exc, outcome >>
    /\ UNCHANGED << plan, idx, t, session, results, statuses, intAt, sweepNo >>

\* Variant of set_pulse_parameters: the pulse level is programmed through the
\* current-limit register, SOURce1:CURRent:LIMIt:AMPLitude {current_ma/1000}.
set_pulse_parameters_SetsLimit ==
    /\ pc \in {"ampl", "ontime", "offtime", "count"}
    /\ \E ok \in BOOLEAN :
        /\ CASE pc = "ampl"    -> Issue("sweep", "limit", LimitAmps(currents_ma[idx]), ok)
             [] pc = "ontime"  -> Issue("sweep", "ontime", on_time, ok)
             [] pc = "offtime" -> Issue("sweep", "offtime", off_time, ok)
             [] pc = "count"   -> Issue("sweep", "count", 1, ok)
        /\ IF ok
           THEN /\ pc' = CASE pc = "ampl"    -> "ontime"
                           [] pc = "ontime"  -> "offtime"
                           [] pc = "offtime" -> "count"
                           [] pc = "count"   -> "fire"
                /\ UNCHANGED << exc, outcome >>
           ELSE RaiseFromSweep
    /\ UNCHANGED << plan, idx, t, session, results, statuses, intAt, sweepNo >>

\* set_pulse_parameters(inst, on_time, off_time, max_limit_ma, curr):
\* four writes, amplitude first; nothing is checked before the first write.
set_pulse_parameters ==
    /\ pc \in {"ampl", "ontime", "offtime", "count"}
    /\ \E ok \in BOOLEAN :
        /\ CASE pc = "ampl"    -> Issue("sweep", "ampl", PulsePct(currents_ma[idx], MAX_LIMIT_MA), ok)
             [] pc = "ontime"  -> Issue("sweep", "ontime", on_time, ok)
             [] pc = "offtime" -> Issue("sweep", "offtime", off_time, ok)
             [] pc = "count"   -> Issue("sweep", "count", 1, ok)
        /\ IF ok
           THEN /\ pc' = CASE pc = "ampl"    -> "ontime"
                           [] pc = "ontime"  -> "offtime"
                           [] pc = "offtime" -> "count"
                           [] pc = "count"   -> "fire"
                /\ UNCHANGED << exc, outcome >>
           ELSE RaiseFromSweep
    /\ UNCHANGED << plan, idx, t, session, results, statuses, intAt, sweepNo >>

\* Variant of fire_pulse: a rejected output-ON write is tried again.
fire_pulse_Retry ==
    /\ pc = "fire"
    /\ \E ok \in BOOLEAN :
        /\ Issue("sweep", "on", 0, ok)
        /\ pc' = IF ok THEN "settle" ELSE "fire"
        /\ UNCHANGED << exc, outcome >>
    /\ UNCHANGED << plan, idx, t, session, results, statuses, intAt, sweepNo >>

\* fire_pulse(inst): OUTPut1:STATe ON.
fire_pulse ==
    /\ pc = "fire"
    /\ \E ok \in BOOLEAN :
        /\ Issue("sweep", "on", 0, ok)
        /\ IF ok
           THEN pc' = "settle" /\ UNCHANGED << exc, outcome >>
           ELSE RaiseFromSweep
    /\ UNCHANGED << plan, idx, t, session, results, statuses, intAt, sweepNo >>

\* Variant of Settle: the measurement is taken without the settle delay.
Settle_NoWait ==
    /\ pc = "settle"
    /\ pc' = "measI"
    /\ UNCHANGED << exc, plan, idx, t, inst, session, cmds, results, statuses,
                    outcome, intAt, sweepNo >>

\* time.sleep(1) before the measurement.
Settle ==
    /\ pc = "settle"
    /\ Sleep1
    /\ pc' = "measI"
    /\ UNCHANGED << exc, plan, idx, t, session, results, statuses, outcome, intAt, sweepNo >>

\* Variant of AfterMeasure: the whole of on_time is waited after the
\* measurement, range(on_time, 0, -1).
AfterMeasure_FullOnTime ==
    pc' = "onhold" /\ t' = on_time

\* After the measurement line: the remaining ON time, range(on_time - 1, 0, -1),
\* is waited, or is empty and turn_off follows.
AfterMeasure ==
    IF on_time - 1 > 0
    THEN pc' = "onhold" /\ t' = on_time - 1
    ELSE pc' = "off" /\ t' = 0

\* measure(inst): current query, voltage query (a reply float() cannot parse
\* raises like a failed query); then run_sweep prints the measurement line.
measure ==
    /\ pc \in {"measI", "measV"}
    /\ \E ok \in BOOLEAN :
        /\ Issue("sweep", IF pc = "measI" THEN "curr?" ELSE "volt?", 0, ok)
        /\ IF ok
           THEN /\ IF pc = "measI"
                   THEN pc' = "measV" /\ UNCHANGED << t, results >>
                   ELSE /\ results' = Append(results, [idx |-> idx, curr |-> currents_ma[idx]])
                        /\ AfterMeasure
                /\ UNCHANGED << exc, outcome >>
           ELSE RaiseFromSweep /\ UNCHANGED << t, results >>
    /\ UNCHANGED << plan, idx, session, statuses, intAt, sweepNo >>

\* Remaining ON time, one second at a time.
OnHold ==
    /\ pc = "onhold"
    /\ Sleep1
    /\ IF t > 1
       THEN t' = t - 1 /\ UNCHANGED pc
       ELSE t' = 0 /\ pc' = "off"
    /\ UNCHANGED << exc, plan, idx, session, results, statuses, outcome, intAt, sweepNo >>

\* turn_off(inst) of the step: OUTPut1:STATe OFF.
turn_off ==
    /\ pc = "off"
    /\ \E ok \in BOOLEAN :
        /\ TurnOffWrite("sweep", ok)
        /\ IF ok
           THEN pc' = "query" /\ UNCHANGED << exc, outcome >>
           ELSE RaiseFromSweep
    /\ UNCHANGED << plan, idx, t, session, results, statuses, intAt, sweepNo >>

\* What run_sweep does when inst.query('OUTPut1:STATe?') of the step raises:
\* the call stands unguarded in the try, so the exception leaves run_sweep.
QueryStateFailed ==
    /\ RaiseFromSweep
    /\ UNCHANGED << idx, t, statuses >>

\* Variant of AfterStatus: no OFF time is waited after the last step.
AfterStatus_SkipLastHold ==
    IF off_time > 0 /\ idx < Len(currents_ma)
    THEN pc' = "offhold" /\ t' = off_time /\ UNCHANGED << idx, outcome >>
    ELSE LoopNext(idx)

\* After the status line: the OFF time, range(off_time, 0, -1), is waited,
\* or is empty and the loop goes on.
AfterStatus ==
    IF off_time > 0
    THEN pc' = "offhold" /\ t' = off_time /\ UNCHANGED << idx, outcome >>
    ELSE LoopNext(idx)

\* status = inst.query('OUTPut1:STATe?').strip(); print the status line.
QueryState ==
    /\ pc = "query"
    /\ \E ok \in BOOLEAN :
        /\ Issue("sweep", "state?", 0, ok)
        /\ IF ok
           THEN /\ statuses' = Append(statuses, idx)
                /\ AfterStatus
                /\ UNCHANGED exc
           ELSE QueryStateFailed
    /\ UNCHANGED << plan, session, results, intAt, sweepNo >>

\* OFF time, one second at a time.
OffHold ==
    /\ pc = "offhold"
    /\ Sleep1
    /\ IF t > 1
       THEN t' = t - 1 /\ UNCHANGED << pc, idx, outcome >>
       ELSE LoopNext(idx)
    /\ UNCHANGED << exc, plan, session, results, statuses, intAt, sweepNo >>

\* Variant of InterruptTarget: the countdown stands inside run_sweep's try,
\* so its Ctrl+C is caught by run_sweep's handler too.
InterruptTarget_CountdownInTry(p) == "h_off"

\* Where a KeyboardInterrupt raised at position p of run_sweep is caught:
\* in the try body by run_sweep's own handler, in the countdown (which stands
\* before the try) by main's handler, which goes on to cleanup.
InterruptTarget(p) == IF p \in TryPcs THEN "h_off" ELSE "cleanup_off"

\* Variant of KeyboardInterrupt: a Ctrl+C during the countdown is swallowed
\* there and run_sweep goes on into its loop.
KeyboardInterrupt_CountdownIgnored ==
    /\ pc \in CountdownPcs \cup TryPcs
    /\ intAt.pc = "none"
    /\ intAt' = [pc |-> pc, idx |-> idx, pos |-> Len(cmds),
                 nres |-> Len(results), nstat |-> Len(statuses)]
    /\ IF pc \in TryPcs
       THEN pc' = "h_off" /\ outcome' = "cancelling" /\ UNCHANGED << idx, t >>
       ELSE LoopNext(0)
    /\ UNCHANGED << exc, plan, inst, session, cmds, results, statuses, sweepNo >>

\* The operator presses Ctrl+C while run_sweep is in its countdown or try body.
KeyboardInterrupt ==
    /\ pc \in CountdownPcs \cup TryPcs
    /\ intAt.pc = "none"
    /\ intAt' = [pc |-> pc, idx |-> idx, pos |-> Len(cmds),
                 nres |-> Len(results), nstat |-> Len(statuses)]
    /\ pc' = InterruptTarget(pc)
    /\ outcome' = IF InterruptTarget(pc) = "h_off" THEN "cancelling" ELSE "interrupted"
    /\ UNCHANGED << exc, plan, idx, t, inst, session, cmds, results, statuses, sweepNo >>

\* Variant of InterruptHandler: turn_off, then return without the state query.
InterruptHandler_NoQuery ==
    /\ pc \in HandlerPcs
    /\ \E ok \in BOOLEAN :
        /\ Issue("handler", "off", 0, ok)
        /\ IF ok
           THEN pc' = "prompt" /\ outcome' = "cancelled" /\ UNCHANGED exc
           ELSE RaiseFromSweep
    /\ UNCHANGED << plan, idx, t, session, results, statuses, intAt, sweepNo >>

\* Variant of InterruptHandler: the state query alone, no turn_off.
InterruptHandler_NoTurnOff ==
    /\ pc \in HandlerPcs
    /\ \E ok \in BOOLEAN :
        /\ Issue("handler", "state?", 0, ok)
        /\ IF ok
           THEN pc' = "prompt" /\ outcome' = "cancelled" /\ UNCHANGED exc
           ELSE RaiseFromSweep
    /\ UNCHANGED << plan, idx, t, session, results, statuses, intAt, sweepNo >>

\* except KeyboardInterrupt of run_sweep: turn_off, state query, return.
\* Either call raising leaves run_sweep with that exception.
InterruptHandler ==
    /\ pc \in HandlerPcs
    /\ \E ok \in BOOLEAN :
        /\ IF pc = "h_off"
           THEN TurnOffWrite("handler", ok)
           ELSE Issue("handler", "state?", 0, ok)
        /\ IF ok
           THEN /\ IF pc = "h_off"
                   THEN pc' = "h_query" /\ UNCHANGED outcome
                   ELSE pc' = "prompt" /\ outcome' = "cancelled"
                /\ UNCHANGED exc
           ELSE RaiseFromSweep
    /\ UNCHANGED << plan, idx, t, session, results, statuses, intAt, sweepNo >>

\* ------------------------------------------------------- main, continued
\* Variant of Prompt: cleanup stands in main's except clause instead of its
\* finally, so declining another sweep ends main without it.
Prompt_BreakSkipsCleanup ==
    /\ pc = "prompt"
    /\ \E ans \in {"y", "n", "ctrl-c"} :
        CASE ans = "y" -> sweepNo < MaxSweeps /\ pc' = "call_sweep"
          [] ans = "n" -> pc' = "end"
          [] OTHER     -> pc' = "cleanup_off"
    /\ UNCHANGED << exc, plan, idx, t, inst, session, cmds, results, statuses,
                    outcome, intAt, sweepNo >>

\* input('Run another full pulse sequence? (y/n)'): yes loops, anything else
\* breaks, Ctrl+C is caught by main's handler; the last two reach cleanup.
Prompt ==
    /\ pc = "prompt"
    /\ \E ans \in {"y", "n", "ctrl-c"} :
        IF ans = "y"
        THEN sweepNo < MaxSweeps /\ pc' = "call_sweep"
        ELSE pc' = "cleanup_off"
    /\ UNCHANGED << exc, plan, idx, t, inst, session, cmds, results, statuses,
                    outcome, intAt, sweepNo >>

\* Variant of cleanup: turn_off stands outside any try, so its failure
\* leaves cleanup before the close.
cleanup_Unguarded ==
    /\ pc \in {"cleanup_off", "cleanup_close"}
    /\ \E ok \in BOOLEAN :
        IF pc = "cleanup_off"
        THEN /\ Issue("cleanup", "off", 0, ok)
             /\ pc' = IF ok THEN "cleanup_close" ELSE "end"
             /\ exc' = IF ok THEN exc ELSE "cleanup"
             /\ UNCHANGED session
        ELSE /\ Issue("cleanup", "close", 0, ok)
             /\ session' = IF ok THEN "closed" ELSE session
             /\ pc' = "end"
             /\ UNCHANGED exc
    /\ UNCHANGED << plan, idx, t, results, statuses, outcome, intAt, sweepNo >>

\* cleanup(inst): try turn_off except Exception: pass; try close except
\* Exception: pass.
cleanup ==
    /\ pc \in {"cleanup_off", "cleanup_close"}
    /\ \E ok \in BOOLEAN :
        IF pc = "cleanup_off"
        THEN /\ TurnOffWrite("cleanup", ok)
             /\ pc' = "cleanup_close"
             /\ UNCHANGED << session, exc >>
        ELSE /\ Issue("cleanup", "close", 0, ok)
             /\ session' = IF ok THEN "closed" ELSE session
             /\ pc' = "end"
             /\ UNCHANGED exc
    /\ UNCHANGED << plan, idx, t, results, statuses, outcome, intAt, sweepNo >>

Next ==
    \/ init_instrument
    \/ configure_pulse_mode
    \/ QueryIdn
    \/ CallSweep
    \/ Countdown
    \/ set_pulse_parameters
    \/ fire_pulse
    \/ Settle
    \/ measure
    \/ OnHold
    \/ turn_off
    \/ QueryState
    \/ OffHold
    \/ KeyboardInterrupt
    \/ InterruptHandler
    \/ Prompt
    \/ cleanup

Spec == Init /\ [][Next]_vars

(***************************************************************************)
(* Reading the history                                                     *)
(***************************************************************************)
ByRunSweep(c) == c.who \in {"sweep", "handler"}
IsCommand(c) == c.op # "sleep"
IsOutputCmd(c) == c.op \in {"on", "off"}
IsPulseCmd(c) == c.op \in {"ampl", "ontime", "offtime", "count", "on", "curr?", "volt?"}

\* What run_sweep itself did (cleanup's commands come after it has been left).
SweepLog == SelectSeq(cmds, ByRunSweep)
SweepCommands == SelectSeq(SweepLog, IsCommand)
SweepOutputCmds == SelectSeq(SweepLog, IsOutputCmd)
CleanupCommands == SelectSeq(cmds, LAMBDA c : c.who = "cleanup")

\* Control has left run_sweep.
SweepLeft == outcome \in {"completed", "cancelled", "failed", "interrupted"}

\* What run_sweep did after the operator interrupt hit it.
AfterInterrupt == SubSeq(SweepLog, intAt.pos + 1, Len(SweepLog))

Ops(log) == [i \in DOMAIN log |-> log[i].op]
Oks(log) == [i \in DOMAIN log |-> log[i].ok]

\* The lines printed for the first k steps, in order.
ResultsOfFirst(k) == [i \in 1..k |-> [idx |-> i, curr |-> currents_ma[i]]]
StatusesOfFirst(k) == [i \in 1..k |-> i]

\* Every target current of the sweep lies within 0 .. MAX_LIMIT_MA.
PlanInRange == \A i \in DOMAIN currents_ma : 0 <= currents_ma[i] /\ currents_ma[i] <= MAX_LIMIT_MA

(***************************************************************************)
(* C1: on every way out of run_sweep, if an output-ON write was accepted   *)
(* during the sweep, the last output-state command run_sweep issued is     *)
(* OUTPut1:STATe OFF.                                                      *)
(***************************************************************************)
C1_OffForcedOnEveryExit ==
    (/\ PlanInRange
     /\ SweepLeft
     /\ \E i \in DOMAIN SweepLog : SweepLog[i].op = "on" /\ SweepLog[i].ok)
        => SweepOutputCmds[Len(SweepOutputCmds)].op = "off"

(***************************************************************************)
(* C2: once a sweep has begun, the output is ON only between the           *)
(* fire_pulse write and the turn_off write that ends that ON phase (the    *)
(* step's own, or the interrupt handler's); in the countdown, the OFF hold,*)
(* between steps and once run_sweep has been left it is OFF.               *)
(***************************************************************************)
OnPhasePcs == {"settle", "measI", "measV", "onhold", "off", "h_off"}

C2_OutputOnOnlyInOnPhase ==
    (/\ PlanInRange
     /\ outcome # "none"
     /\ pc \notin {"cleanup_close", "end"}
     /\ inst.output = "ON")
        => pc \in OnPhasePcs

(***************************************************************************)
(* C3 as stated: after an operator interrupt at a wait point of the loop   *)
(* (settle delay, remaining ON hold, OFF hold) or between steps, what      *)
(* run_sweep issues until it is left is turn_off followed by the           *)
(* output-state query, and nothing else.                                   *)
(***************************************************************************)
C3Pcs == WaitPcs \cup {"ampl"}

C3_Original_OffThenQueryAlways ==
    (PlanInRange /\ SweepLeft /\ intAt.pc \in C3Pcs)
        => Ops(AfterInterrupt) = << "off", "state?" >>

(***************************************************************************)
(* C3 amended: after such an interrupt the very next instrument command is *)
(* turn_off; the output-state query follows it when that turn_off write    *)
(* succeeds (a failed turn_off raises out of run_sweep and no query is     *)
(* made); run_sweep returns only after both succeeded; and no              *)
(* set_pulse_parameters, fire_pulse or measure command is issued           *)
(* afterwards in that sweep.                                               *)
(***************************************************************************)
C3_InterruptThenOffThenQuery ==
    intAt.pc \in C3Pcs =>
        /\ \A i \in DOMAIN AfterInterrupt : ~IsPulseCmd(AfterInterrupt[i])
        /\ pc = "h_off" => AfterInterrupt = << >>
        /\ pc = "h_query" => Ops(AfterInterrupt) = << "off" >> /\ Oks(AfterInterrupt) = << TRUE >>
        /\ outcome = "cancelled" =>
              /\ Ops(AfterInterrupt) = << "off", "state?" >>
              /\ Oks(AfterInterrupt) = << TRUE, TRUE >>
        /\ outcome = "failed" =>
              \/ Ops(AfterInterrupt) = << "off" >> /\ Oks(AfterInterrupt) = << FALSE >>
              \/ Ops(AfterInterrupt) = << "off", "state?" >> /\ Oks(AfterInterrupt) = << TRUE, FALSE >>
        /\ SweepLeft => outcome \in {"cancelled", "failed"}

\* The interrupt hit the remaining ON hold, and the handler switched the
\* output off, read the state back and returned.
C3_Witness ==
    /\ intAt.pc = "onhold"
    /\ outcome = "cancelled"
    /\ inst.output = "OFF"

(***************************************************************************)
(* C4 as stated: a cancellation after step i (0-based) has completed and   *)
(* before step i+1 is programmed ends the sweep cancelled, with exactly    *)
(* i+1 step results, and with a turn_off after the cancellation point.     *)
(***************************************************************************)
\* The interrupt came after a step's status line and before the next
\* step's first write: in the OFF hold, or at the top of the next iteration.
CancelledBetweenSteps ==
    \/ intAt.pc = "offhold"
    \/ intAt.pc = "ampl" /\ intAt.idx >= 2

\* Steps that had completed when the interrupt came (i + 1 in the claim).
StepsCompletedAtInterrupt == IF intAt.pc = "offhold" THEN intAt.idx ELSE intAt.idx - 1

C4_Original_EndsCancelled ==
    (PlanInRange /\ SweepLeft /\ CancelledBetweenSteps) =>
        /\ outcome = "cancelled"
        /\ Len(results) = StepsCompletedAtInterrupt
        /\ Len(statuses) = StepsCompletedAtInterrupt
        /\ \E i \in DOMAIN AfterInterrupt : AfterInterrupt[i].op = "off"

(***************************************************************************)
(* C4 amended: such a cancellation leaves exactly i+1 step results (one    *)
(* per finished step, in order) and turn_off is invoked after the          *)
(* cancellation point; the sweep ends cancelled when the handler's         *)
(* turn_off and state query both succeed, and ends with the error of the   *)
(* one that failed otherwise.                                              *)
(***************************************************************************)
C4_CancelBetweenSteps ==
    (SweepLeft /\ CancelledBetweenSteps) =>
        /\ results = ResultsOfFirst(StepsCompletedAtInterrupt)
        /\ statuses = StatusesOfFirst(StepsCompletedAtInterrupt)
        /\ AfterInterrupt # << >>
        /\ AfterInterrupt[1].op = "off"
        /\ outcome = IF \A i \in DOMAIN AfterInterrupt : AfterInterrupt[i].ok
                     THEN "cancelled" ELSE "failed"
        /\ outcome = "cancelled" => Len(AfterInterrupt) = 2

\* Interrupted at the top of step 2, after step 1 had completed: cancelled
\* with one step result.
C4_Witness ==
    /\ intAt.pc = "ampl"
    /\ intAt.idx = 2
    /\ outcome = "cancelled"
    /\ Len(results) = 1

(***************************************************************************)
(* C5: an operator interrupt during the initial countdown aborts the sweep *)
(* before any pulse is programmed: run_sweep issues no instrument command  *)
(* for that sweep and prints no step result.                               *)
(***************************************************************************)
C5_CountdownInterruptNoPulse ==
    intAt.pc = "countdown" =>
        /\ SweepCommands = << >>
        /\ results = << >>
        /\ statuses = << >>
        /\ outcome = "interrupted"
        /\ pc \in {"cleanup_off", "cleanup_close", "end"}

\* The countdown of a non-empty sweep was interrupted and main has ended.
C5_Witness ==
    /\ intAt.pc = "countdown"
    /\ Len(currents_ma) > 0
    /\ pc = "end"

(***************************************************************************)
(* C6: when a set_pulse_parameters write, the fire_pulse write or a        *)
(* measure query fails in step k, the error is surfaced to the caller, no  *)
(* command of a later step is issued, and exactly the k-1 steps finished   *)
(* before it have reported results.                                        *)
(***************************************************************************)
C6_FailFast ==
    \A i \in DOMAIN cmds :
        (cmds[i].who = "sweep" /\ IsPulseCmd(cmds[i]) /\ ~cmds[i].ok) =>
            /\ exc = "error"
            /\ outcome = "failed"
            /\ \A j \in DOMAIN cmds : j > i => cmds[j].who = "cleanup"
            /\ \A j \in DOMAIN cmds : cmds[j].who = "sweep" => cmds[j].step <= cmds[i].step
            /\ results = ResultsOfFirst(cmds[i].step - 1)
            /\ statuses = StatusesOfFirst(cmds[i].step - 1)

\* The amplitude write of step 2 was rejected: one step result, main ended
\* with the error.
C6_Witness ==
    /\ \E i \in DOMAIN cmds : cmds[i].op = "ampl" /\ cmds[i].step = 2 /\ ~cmds[i].ok
    /\ Len(results) = 1
    /\ pc = "end"

(***************************************************************************)
(* C7: set_pulse_parameters writes a brightness within [0, 100], and for a *)
(* current outside 0 .. limit issues no write at all.                      *)
(***************************************************************************)
C7_BrightnessWithinRange ==
    \A i \in DOMAIN cmds :
        cmds[i].op = "ampl" =>
            /\ 0 <= currents_ma[cmds[i].step]
            /\ currents_ma[cmds[i].step] <= MAX_LIMIT_MA
            /\ 0 <= cmds[i].arg
            /\ cmds[i].arg <= 100

(***************************************************************************)
(* C8: a sweep that completes (no cancellation, no instrument failure)     *)
(* has printed one measurement record per target current, in the order of  *)
(* the current list.                                                       *)
(***************************************************************************)
C8_OneResultPerCurrent ==
    outcome = "completed" =>
        /\ Len(results) = Len(currents_ma)
        /\ results = ResultsOfFirst(Len(currents_ma))
        /\ statuses = StatusesOfFirst(Len(currents_ma))

\* A two-pulse sweep has completed.
C8_Witness ==
    /\ outcome = "completed"
    /\ Len(currents_ma) = 2
    /\ Len(results) = 2

(***************************************************************************)
(* C9: a failure of the step's output-state query (after turn_off) does    *)
(* not abort the sweep: no error leaves run_sweep because of it.           *)
(***************************************************************************)
C9_StateQueryFailureTolerated ==
    (/\ PlanInRange
     /\ \E i \in DOMAIN cmds : cmds[i].who = "sweep" /\ cmds[i].op = "state?" /\ ~cmds[i].ok)
        => outcome # "failed" /\ exc = "none"

(***************************************************************************)
(* C10: cleanup never reports an error: it attempts turn_off, then         *)
(* attempts the close whether or not turn_off failed, and returns          *)
(* normally whichever of the two fail; the only error that can leave main  *)
(* is the one run_sweep raised.                                            *)
(***************************************************************************)
C10_CleanupNeverRaises ==
    /\ exc # "cleanup"
    /\ pc = "cleanup_close" => Ops(CleanupCommands) = << "off" >>
    /\ (pc = "end" /\ outcome # "none") =>
          /\ Ops(CleanupCommands) = << "off", "close" >>
          /\ exc = (IF outcome = "failed" THEN "error" ELSE "none")

\* cleanup ran to its end although both its turn_off and its close failed.
C10_Witness ==
    /\ pc = "end"
    /\ Oks(CleanupCommands) = << FALSE, FALSE >>

(***************************************************************************)
(* Reading the history, by position                                        *)
(***************************************************************************)
\* The sleeps strictly between positions i and j of the history.
SleepsBetween(i, j) == Cardinality({n \in (i + 1)..(j - 1) : cmds[n].op = "sleep"})

\* Position n holds run_sweep's command op of step k.
IsStepCmd(n, op, k) == cmds[n].who = "sweep" /\ cmds[n].op = op /\ cmds[n].step = k

(***************************************************************************)
(* C11: within every step the output-ON write is issued only after the     *)
(* four set_pulse_parameters writes of that same step (amplitude, ON time, *)
(* OFF time, count) have all succeeded, directly before it.                *)
(***************************************************************************)
C11_FireOnlyAfterProgram ==
    \A i \in DOMAIN cmds :
        cmds[i].op = "on" =>
            /\ i >= 5
            /\ Ops(SubSeq(cmds, i - 4, i - 1)) = << "ampl", "ontime", "offtime", "count" >>
            /\ \A n \in (i - 4)..(i - 1) :
                  cmds[n].ok /\ cmds[n].who = "sweep" /\ cmds[n].step = cmds[i].step

\* The output-ON write of the second step has been issued.
C11_Witness ==
    \E i \in DOMAIN cmds : cmds[i].op = "on" /\ cmds[i].step = 2

(***************************************************************************)
(* C12: in every step that reaches its turn_off, the time waited between   *)
(* the output-ON write and the output-OFF write is exactly on_time: 1      *)
(* before the measurement and on_time - 1 after it; with on_time = 1       *)
(* turn_off follows the measurement directly.                              *)
(***************************************************************************)
C12_OnTimeExact ==
    \A j \in DOMAIN cmds :
        (cmds[j].who = "sweep" /\ cmds[j].op = "off") =>
            \E i \in 1..(j - 1) :
                /\ IsStepCmd(i, "on", cmds[j].step)
                /\ SleepsBetween(i, j) = on_time
                /\ IsStepCmd(i + 2, "curr?", cmds[j].step)
                /\ IsStepCmd(i + 3, "volt?", cmds[j].step)
                /\ SleepsBetween(i, i + 2) = 1
                /\ SleepsBetween(i + 3, j) = on_time - 1
                /\ j = i + 3 + on_time
                /\ on_time = 1 => cmds[j - 1].op = "volt?"

\* A step with on_time = 2 has reached its turn_off.
C12_Witness ==
    /\ on_time = 2
    /\ \E j \in DOMAIN cmds : cmds[j].who = "sweep" /\ cmds[j].op = "off" /\ cmds[j].ok

(***************************************************************************)
(* C13: in every step the measurement (current query, then voltage query)  *)
(* is taken at most once, exactly one sleep of 1 time unit after the       *)
(* output-ON write and before any of the remaining ON hold; a step that    *)
(* printed its measurement line took it exactly once.                      *)
(***************************************************************************)
C13_MeasuredOnceAfterOneUnit ==
    /\ \A i \in DOMAIN cmds :
          /\ cmds[i].op = "curr?" =>
                /\ i >= 3
                /\ cmds[i - 1].op = "sleep" /\ cmds[i - 1].arg = 1
                /\ IsStepCmd(i - 2, "on", cmds[i].step) /\ cmds[i - 2].ok
          /\ cmds[i].op = "volt?" =>
                /\ i >= 2
                /\ IsStepCmd(i - 1, "curr?", cmds[i].step) /\ cmds[i - 1].ok
    /\ \A i \in DOMAIN cmds :
          cmds[i].op \in {"curr?", "volt?"} =>
              \A j \in (i + 1)..Len(cmds) :
                  cmds[j].op = cmds[i].op => cmds[j].step # cmds[i].step
    /\ \A k \in DOMAIN results :
          /\ Cardinality({i \in DOMAIN cmds : IsStepCmd(i, "curr?", k)}) = 1
          /\ Cardinality({i \in DOMAIN cmds : IsStepCmd(i, "volt?", k)}) = 1

\* A sweep with on_time = 2 has completed two steps.
C13_Witness ==
    /\ on_time = 2
    /\ outcome = "completed"
    /\ Len(results) = 2

(***************************************************************************)
(* C14: after the output-state query of every step, the last one included, *)
(* exactly off_time time units are waited before the next step's first     *)
(* program write (or before run_sweep returns), so on_time + off_time is   *)
(* waited from a step's output-ON write to the next step's program; with   *)
(* off_time = 0 nothing is waited there.                                   *)
(***************************************************************************)
C14_OffTimeExact ==
    \A i \in DOMAIN cmds :
        (cmds[i].who = "sweep" /\ cmds[i].op = "state?" /\ cmds[i].ok) =>
            /\ \A j \in DOMAIN cmds :
                  IsStepCmd(j, "ampl", cmds[i].step + 1) =>
                      /\ j = i + off_time + 1
                      /\ SleepsBetween(i, j) = off_time
                      /\ \E o \in 1..i : /\ IsStepCmd(o, "on", cmds[i].step)
                                         /\ SleepsBetween(o, j) = 1 + (on_time - 1) + off_time
            /\ (outcome = "completed" /\ cmds[i].step = Len(currents_ma)) =>
                  /\ Len(SweepLog) = i + off_time
                  /\ SleepsBetween(i, Len(SweepLog) + 1) = off_time
            /\ (off_time = 0 /\ i < Len(cmds)) => cmds[i + 1].op # "sleep"

\* A two-step sweep with on_time = 2 and off_time = 1 has completed.
C14_Witness ==
    /\ outcome = "completed"
    /\ Len(currents_ma) = 2
    /\ on_time = 2
    /\ off_time = 1

(***************************************************************************)
(* C15: for an empty current list run_sweep issues no instrument command   *)
(* at all and prints no step result: after the countdown it returns        *)
(* without entering the loop, and only the countdown's sleeps are on its   *)
(* record.                                                                 *)
(***************************************************************************)
C15_EmptySweepNoCommands ==
    Len(currents_ma) = 0 =>
        /\ SweepCommands = << >>
        /\ results = << >>
        /\ statuses = << >>
        /\ pc \notin TryPcs \cup HandlerPcs
        /\ Len(SweepLog) <= initial_countdown
        /\ (SweepLeft /\ intAt.pc = "none") =>
              outcome = "completed" /\ Len(SweepLog) = initial_countdown

\* An empty sweep has returned to main's prompt.
C15_Witness ==
    /\ Len(currents_ma) = 0
    /\ outcome = "completed"
    /\ pc = "prompt"

(***************************************************************************)
(* C16: nothing is retried: run_sweep issues each command of a step (each  *)
(* program write, the output-ON write, each measurement query, the         *)
(* output-OFF write, the state query) at most once, the interrupt handler  *)
(* issues each of its two commands at most once, and a command that fails  *)
(* is the last thing run_sweep does: the sweep is abandoned with the       *)
(* error.                                                                  *)
(***************************************************************************)
C16_NoRetry ==
    /\ \A i \in DOMAIN cmds :
          (ByRunSweep(cmds[i]) /\ IsCommand(cmds[i])) =>
              \A j \in (i + 1)..Len(cmds) :
                  (cmds[j].who = cmds[i].who /\ cmds[j].op = cmds[i].op)
                      => cmds[j].step # cmds[i].step
    /\ \A i \in DOMAIN cmds :
          (ByRunSweep(cmds[i]) /\ ~cmds[i].ok) =>
              /\ \A j \in (i + 1)..Len(cmds) : cmds[j].who = "cleanup"
              /\ outcome = "failed"
              /\ exc = "error"
              /\ pc \in {"cleanup_off", "cleanup_close", "end"}

\* The output-ON write of the second step was rejected and main has ended.
C16_Witness ==
    /\ \E i \in DOMAIN cmds : IsStepCmd(i, "on", 2) /\ ~cmds[i].ok
    /\ pc = "end"

(***************************************************************************)
(* C17: turn_off is idempotent: it can be called from any prior output     *)
(* state, ON or OFF, and so twice in succession; the call is never         *)
(* refused because of the state the output is in, and after every          *)
(* accepted call the output is OFF.                                        *)
(***************************************************************************)
TurnOffCallPcs == {"off", "h_off", "cleanup_off"}

\* A step of the program in which a turn_off write is accepted.
TurnOffAccepted ==
    /\ Next
    /\ Len(cmds') = Len(cmds) + 1
    /\ cmds'[Len(cmds')].op = "off"
    /\ cmds'[Len(cmds')].ok
    /\ inst'.output = "OFF"

LoopEntered == outcome # "none"

C18_CleanupOnceOnEveryWayOut ==
    /\ pc \notin {"cleanup_close", "end"} => CleanupCommands = << >>
    /\ pc = "cleanup_close" => Ops(CleanupCommands) = << "off" >>
    /\ (pc = "end" /\ LoopEntered) =>
          /\ Ops(CleanupCommands) = << "off", "close" >>
          /\ SubSeq(cmds, Len(cmds) - 1, Len(cmds)) = CleanupCommands
    /\ (pc = "end" /\ ~LoopEntered) =>
          /\ CleanupCommands = << >>
          /\ exc = "error"
          /\ session # "closed"
          /\ cmds # << >> => ~cmds[Len(cmds)].ok
    /\ pc = "end" => ~ENABLED Next

\* An instrument error left run_sweep and main has ended through cleanup.
C18_Witness ==
    /\ pc = "end"
    /\ outcome = "failed"
    /\ exc = "error"
    /\ Len(CleanupCommands) = 2

(***************************************************************************)
(* C19 as stated: an operator interrupt inside the per-step loop is        *)
(* consumed by run_sweep, which returns normally (no error reaches main).  *)
(***************************************************************************)
C19_Original_InterruptConsumed ==
    (PlanInRange /\ SweepLeft /\ intAt.pc \in TryPcs)
        => outcome = "cancelled" /\ exc = "none"

(***************************************************************************)
(* C19 amended: an operator interrupt inside the per-step loop is caught   *)
(* by run_sweep's handler; when the handler's turn_off and state query     *)
(* both succeed run_sweep returns normally, main goes on to its prompt and *)
(* a further sweep can be started on the same session; when either fails,  *)
(* its error leaves run_sweep and main ends through cleanup.  An interrupt *)
(* during the initial countdown is not caught by run_sweep: main ends      *)
(* through cleanup without any prompt.                                     *)
(***************************************************************************)
\* main can go round its loop again from here.
AnotherSweepStarts == Prompt /\ pc' = "call_sweep"

C19_InterruptState ==
    /\ (SweepLeft /\ intAt.pc \in TryPcs) =>
          IF \A i \in DOMAIN AfterInterrupt : AfterInterrupt[i].ok
          THEN /\ outcome = "cancelled"
               /\ exc = "none"
               /\ pc \in {"prompt", "call_sweep", "cleanup_off", "cleanup_close", "end"}
          ELSE /\ outcome = "failed"
               /\ exc = "error"
               /\ pc \in {"cleanup_off", "cleanup_close", "end"}
    /\ (outcome = "cancelled" /\ pc = "prompt") => session = "open"
    /\ (outcome = "cancelled" /\ pc = "prompt" /\ sweepNo < MaxSweeps)
          => ENABLED AnotherSweepStarts
    /\ intAt.pc \in CountdownPcs =>
          /\ outcome = "interrupted"
          /\ exc = "none"
          /\ pc \in {"cleanup_off", "cleanup_close", "end"}

\* The step that ends the handler hands control to main's prompt, and the
\* step that interrupts the countdown hands it to cleanup.
C19_InterruptStep ==
    /\ (outcome # "cancelled" /\ outcome' = "cancelled") => pc' = "prompt"
    /\ (pc \in CountdownPcs /\ intAt'.pc \in CountdownPcs) => pc' = "cleanup_off"

C19_InterruptConsumedInLoopOnly == [] C19_InterruptState /\ [][C19_InterruptStep]_vars

\* An interrupt in the remaining ON hold was consumed by run_sweep, main
\* prompted, and the operator has asked for another sweep.
C19_Witness ==
    /\ intAt.pc = "onhold"
    /\ outcome = "cancelled"
    /\ pc = "call_sweep"
    /\ session = "open"

(***************************************************************************)
(* C20: a sweep never changes the session configuration: run_sweep (its    *)
(* interrupt handler included) issues no reset, current-limit, terminal or *)
(* source-mode command, so from the first sweep on, through any number of  *)
(* sweeps however they end, the instrument holds the limit, terminal and   *)
(* pulse mode that init_instrument and configure_pulse_mode set; and every *)
(* limit write carries the same value.                                     *)
(***************************************************************************)
IsConfigCmd(c) == c.op \in {"rst", "limit", "terminal", "mode"}

C20_ConfigUnchangedBySweeps ==
    /\ \A i \in DOMAIN cmds : IsConfigCmd(cmds[i]) => cmds[i].who = "init"
    /\ \A i \in DOMAIN cmds : cmds[i].op = "limit" => cmds[i].arg = LimitAmps(MAX_LIMIT_MA)
    /\ pc = "idn" =>
          Cardinality({i \in DOMAIN cmds : cmds[i].op = "limit" /\ cmds[i].ok}) = 2
    /\ LoopEntered =>
          /\ inst.limit = LimitAmps(MAX_LIMIT_MA)
          /\ inst.terminal = TERMINAL
          /\ inst.mode = "PULS"
          /\ \A i \in DOMAIN cmds : ~IsConfigCmd(cmds[i])

\* A second sweep has completed with at least one pulse.
C20_Witness ==
    /\ sweepNo = 2
    /\ outcome = "completed"
    /\ Len(results) >= 1
    /\ inst.limit = LimitAmps(MAX_LIMIT_MA)

====
